---- MODULE Spec2Model ----
(***************************************************************************)
(* Model of the StreamDeck controller (package StreamDeck): the USBDevice  *)
(* link, NewStreamDeck, the Serve event loop with its reader goroutine,    *)
(* asynchronous button callbacks, and the FillImage / FillColor /          *)
(* ClearBtn / FillPanel write path with its message and panel layout.      *)
(***************************************************************************)
EXTENDS Integers, Sequences, FiniteSets, TLC

(* ------------------------------ bounds --------------------------------- *)
\* Serve may be called this many times on one controller.
MaxServeCalls == 2
\* Successful reads of an input report over the whole run.
MaxReports == 3
\* Fill operations (FillImage / FillColor / ClearBtn) called by the application.
MaxFillCalls == 2
\* Application goroutines calling fill operations concurrently.
NumCallers == 2

(* ------------------------- program constants --------------------------- *)
OutEndpointBufferSize == 17
NumButtons == 15
numFirstMsgPixels == 2583
ButtonSize == 72
NumButtonColumns == 5
NumButtonRows == 3
Spacer == 19
PanelWidth == NumButtonColumns * ButtonSize + Spacer * (NumButtonColumns - 1)
PanelHeight == NumButtonRows * ButtonSize + Spacer * (NumButtonRows - 1)

Nil == "nil"
BtnPressed == "BtnPressed"
BtnReleased == "BtnReleased"
\* The controller lock is unlocked; held, it carries the id of the holding goroutine.
Free == 0

\* Buttons whose state byte the device varies in the modelled reports, and the
\* byte values it reports for them; every other state byte is 0.
ActiveButtons == {0, 14}
\* The byte the device reports for a pressed button: any non-zero value.
PressedByte(i) == IF i = 0 THEN 1 ELSE 255

\* The button callbacks the application registers: CbA calls SetBtnEventCb(CbB)
\* and returns, CbB calls FillImage on its button and returns; either may
\* also never get that far and never return.
CbA == "cbA"
CbB == "cbB"
Callbacks == {CbA, CbB}
\* Arguments the application passes to the fill operations.
IndexArgs == {-1, 0, 14, 15, 16}
ValidIndexArgs == {0, 14}
ColorArgs == { <<0, 0, 0>>, <<255, 255, 255>>, <<-1, 0, 0>>, <<0, 256, 0>>,
               <<0, 0, -1>>, <<256, 256, 256>> }

ConnectErr == "connectErr"
ReadErr == "readErr"
WriteErr == "writeErr"
InvalidKeyIndex == "invalid key index"
InvalidColorRange == "invalid color range"

VARIABLES
  connected,          \* USBDevice.connected
  usb,                \* USBDevice.device, context, intf, inEndpoint, outEndpoint
  devOp,              \* the last call made on the USBDevice itself
  btnState,           \* StreamDeck.btnState
  btnEventCb,         \* StreamDeck.btnEventCb
  onConnectCallback,  \* StreamDeck.onConnectCallback
  mu,                 \* StreamDeck's sync.Mutex: Free or its holder
  servePc,            \* position of the goroutine running Serve
  serveNo,            \* number of Serve calls made so far
  serveRet,           \* value returned by the last Serve call
  srvData,            \* report received from messageChan, being dispatched
  stopSig,            \* a value is offered on the stop channel
  rd,                 \* reader goroutine of each Serve call
  nreads,             \* reports read from the device so far
  dispatchLog,        \* callbacks started with "go sd.btnEventCb(i, state)"
  thr,                \* goroutines calling into the controller
  writes,             \* messages handed to USBDevice.write, in order
  ncalls              \* fill operations called by the application so far

vars == <<connected, usb, devOp, btnState, btnEventCb, onConnectCallback, mu, servePc, serveNo,
          serveRet, srvData, stopSig, rd, nreads, dispatchLog, thr, writes, ncalls>>

devVars == <<connected, usb, devOp>>
sdVars == <<btnState, btnEventCb, onConnectCallback, mu>>
serveVars == <<servePc, serveNo, serveRet, srvData, stopSig, rd, nreads, dispatchLog>>
fillVars == <<thr, writes, ncalls>>

(* ------------------------------ helpers -------------------------------- *)
Buttons == 0 .. (NumButtons - 1)
ServeCalls == 1 .. MaxServeCalls
MaxDispatch == MaxReports * Cardinality(ActiveButtons)
AppCallers == 1 .. NumCallers
CbThread(j) == NumCallers + j
CbThreads == { CbThread(j) : j \in 1 .. MaxDispatch }
Threads == AppCallers \cup CbThreads

\* An input report as the device sends it: a framing byte, 15 state bytes, a
\* framing byte.
MkReport(pressed) ==
  [j \in 0 .. (OutEndpointBufferSize - 1) |->
     IF j = 0 \/ j = OutEndpointBufferSize - 1 THEN 255
     ELSE IF (j - 1) \in pressed THEN PressedByte(j - 1) ELSE 0]
Reports == { MkReport(pressed) : pressed \in SUBSET ActiveButtons }
\* The reports of a device on which only button 0 is used.
OneButtonReports == { MkReport({ }), MkReport({0}) }

IdleReader == [pc |-> "idle", startConn |-> TRUE, connOk |-> FALSE, cbCount |-> 0,
               cbReg |-> FALSE, err |-> Nil, data |-> Nil, seq |-> 0]
IdleThread == [pc |-> "idle", op |-> Nil, idx |-> 0, arg |-> << >>, res |-> Nil, call |-> 0]

(* --------------------------- pure functions ---------------------------- *)
\* Variant: only the byte 1 counts as pressed.
intToButtonState_OnlyOne(i) == IF i = 1 THEN BtnPressed ELSE BtnReleased
intToButtonState(i) == IF i = 0 THEN BtnReleased ELSE BtnPressed

\* data = data[1 : len(data)-1]
StripFraming(data) == [i \in 0 .. (OutEndpointBufferSize - 3) |-> data[i + 1]]

\* The callback a dispatch starts: the one registered when the report is handled.
DispatchedCb(cb) == cb

\* Variant: the callbacks of a report are started from the highest index down.
DispatchOrder_Reversed(first, rest) == rest \o first

\* The loop visits the state bytes in index order: the callback of index i is
\* started before those of the indices after it.
DispatchOrder(first, rest) == first \o rest

\* Variant: the cached state is updated only when a callback is registered.
CacheAfterChange_OnlyWithCb(cache, i, new, cb) ==
  IF cb # Nil THEN [cache EXCEPT ![i] = new] ELSE cache

\* sd.btnState[i] = intToButtonState(int(b)), before the test of sd.btnEventCb.
CacheAfterChange(cache, i, new, cb) == [cache EXCEPT ![i] = new]

\* for i, b := range data { if sd.btnState[i] != intToButtonState(int(b)) { ... } }
RECURSIVE DispatchLoop(_, _, _, _, _)
DispatchLoop(i, cache, data, cb, seq) ==
  IF i = NumButtons THEN [st |-> cache, ev |-> << >>]
  ELSE LET new == intToButtonState(data[i]) IN
       IF cache[i] # new
       THEN LET rest == DispatchLoop(i + 1, CacheAfterChange(cache, i, new, cb), data, cb, seq)
                ev == IF cb # Nil
                      THEN << [rep |-> seq, idx |-> i, st |-> new, cb |-> DispatchedCb(cb)] >>
                      ELSE << >>
            IN [st |-> rest.st, ev |-> DispatchOrder(ev, rest.ev)]
       ELSE DispatchLoop(i + 1, cache, data, cb, seq)

(* ------------------------------ USBDevice ------------------------------ *)
Panic == "panic"
SerialErr == "serialErr"
SerialMismatch == "no stream deck device found with serial number"
CloseErr == "closeErr"

\* The serial numbers of the devices that may be plugged in.
Serials == {"A", "B"}

\* The handles a USBDevice holds: "nil" until Connect assigns them, "open",
\* and "closed" once Close released them.
NoHandles == [device |-> "nil", context |-> "nil", intf |-> "nil",
              inEndpoint |-> "nil", outEndpoint |-> "nil"]
OpenHandles == [device |-> "open", context |-> "open", intf |-> "open",
                inEndpoint |-> "open", outEndpoint |-> "open"]

\* What the USB stack answers to one Connect call: where the call stops, and
\* whether the walk over the descriptors meets an IN and an OUT endpoint (the
\* IN endpoint comes first in the descriptor).
ConnectEnv(outcome, hasIn, hasOut) == [outcome |-> outcome, hasIn |-> hasIn, hasOut |-> hasOut]
ConnectEnvs ==
  { ConnectEnv(o, TRUE, TRUE) : o \in {"openErr", "noDevices", "detachErr", "inErr", "outErr"} }
  \cup { ConnectEnv("ok", i, u) : i \in BOOLEAN, u \in BOOLEAN }
ConnectFound == ConnectEnv("ok", TRUE, TRUE)
ConnectNoDevices == ConnectEnv("noDevices", TRUE, TRUE)

\* The fields Connect has assigned when it returns.
ConnectHandles(h, env) ==
  IF env.outcome \in {"openErr", "noDevices"} THEN h
  ELSE LET opened == [h EXCEPT !.device = "open", !.context = "open"] IN
       IF env.outcome \in {"detachErr", "inErr"} THEN opened
       ELSE LET withIn == IF env.hasIn
                          THEN [opened EXCEPT !.intf = "open", !.inEndpoint = "open"]
                          ELSE opened IN
            IF env.outcome = "outErr" \/ ~env.hasOut THEN withIn
            ELSE [withIn EXCEPT !.outEndpoint = "open"]

ConnectErrOf(env) == IF env.outcome = "ok" THEN Nil ELSE ConnectErr

\* usbDevice.SetConnected(true) is reached whenever no call failed.
ConnectedAfterConnect(isConnected, env) ==
  IF env.outcome = "ok" THEN TRUE ELSE isConnected

\* The fields Connect touches without holding the USBDevice lock.
ConnectUnlocked(env) ==
  IF env.outcome \in {"openErr", "noDevices"} THEN { }
  ELSE {"device", "context"}
       \cup (IF env.outcome \in {"outErr", "ok"} /\ env.hasIn THEN {"intf", "inEndpoint"} ELSE { })
       \cup (IF env.outcome = "ok" /\ env.hasOut THEN {"outEndpoint"} ELSE { })

\* Variant: a failed read leaves the connected flag alone.
ConnectedAfterRead_Unchanged(res, isConnected) == isConnected

\* if err != nil { usbDevice.SetConnected(false) }
ConnectedAfterRead(res, isConnected) == IF res = ReadErr THEN FALSE ELSE isConnected

\* usbDevice.inEndpoint.Read(data): a nil endpoint panics, a released one fails.
ReadResults(h) ==
  IF h.inEndpoint = "nil" THEN {Panic}
  ELSE IF h.inEndpoint = "open" THEN {Nil, ReadErr} ELSE {ReadErr}

\* usbDevice.outEndpoint.Write(data): a nil endpoint panics, a released one fails.
WriteResults(h) ==
  IF h.outEndpoint = "nil" THEN {Panic}
  ELSE IF h.outEndpoint = "open" THEN {Nil, WriteErr} ELSE {WriteErr}

\* write hands the bytes to the OUT endpoint whenever there is one.
WriteForwards(h, isConnected) == h.outEndpoint # "nil"

\* Variant: Close releases the handles whatever the flag says.
CloseReleases_Always(isConnected) == TRUE

\* if usbDevice.IsConnected() { ... }
CloseReleases(isConnected) == isConnected

\* Close: intf.Close(), context.Close(), and device.Close() when the context
\* closed without an error.  closeEnv is what the USB stack answers.
CloseEnvs == {"ok", "ctxErr", "devErr"}
CloseResult(h, isConnected, closeEnv) ==
  IF ~CloseReleases(isConnected)
  THEN [h |-> h, res |-> Nil, released |-> { }, unlocked |-> { }]
  ELSE IF h.intf = "nil"
  THEN [h |-> h, res |-> Panic, released |-> { }, unlocked |-> {"intf"}]
  ELSE LET h1 == [h EXCEPT !.intf = "closed",
                           !.inEndpoint = IF @ = "nil" THEN "nil" ELSE "closed",
                           !.outEndpoint = IF @ = "nil" THEN "nil" ELSE "closed"] IN
       IF closeEnv = "ctxErr"
       THEN [h |-> h1, res |-> CloseErr, released |-> {"intf"},
             unlocked |-> {"intf", "context"}]
       ELSE IF closeEnv = "devErr"
       THEN [h |-> [h1 EXCEPT !.context = "closed"], res |-> CloseErr,
             released |-> {"intf", "context"}, unlocked |-> {"intf", "context", "device"}]
       ELSE [h |-> [h1 EXCEPT !.context = "closed", !.device = "closed"], res |-> Nil,
             released |-> {"intf", "context", "device"},
             unlocked |-> {"intf", "context", "device"}]

\* usbDevice.device.SerialNumber(): a nil handle panics, a released one fails.
SerialResults(h) ==
  IF h.device = "nil" THEN { [res |-> Panic, val |-> Nil] }
  ELSE IF h.device = "open"
  THEN { [res |-> Nil, val |-> s] : s \in Serials } \cup { [res |-> SerialErr, val |-> Nil] }
  ELSE { [res |-> SerialErr, val |-> Nil] }

\* The record of one USBDevice call: its result, the value it returned, whether
\* bytes went to the OUT endpoint, the handles it released, the fields it
\* touched without the lock, and the state it was called in.
DevOp(op, res) ==
  [op |-> op, res |-> res, val |-> Nil, fwd |-> FALSE, released |-> { }, unlocked |-> { },
   hasIn |-> TRUE, hasOut |-> TRUE, filter |-> Nil, serialFrom |-> Nil,
   wasConnected |-> FALSE]
NoOp == DevOp("NewUSBDevice", Nil)

\* The USBDevice can still be called: no call on it panicked, and the
\* constructor did not drop it.
DevUsable ==
  /\ devOp.res # Panic
  /\ ~(devOp.op = "NewStreamDeck" /\ devOp.res # Nil)

DevStep(h, isConnected, op) ==
  /\ DevUsable
  /\ usb' = h
  /\ connected' = isConnected
  /\ devOp' = [op EXCEPT !.wasConnected = connected]
  /\ UNCHANGED sdVars
  /\ UNCHANGED serveVars
  /\ UNCHANGED fillVars

DevConnect ==
  \E env \in ConnectEnvs :
    DevStep(ConnectHandles(usb, env), ConnectedAfterConnect(connected, env),
            [DevOp("Connect", ConnectErrOf(env)) EXCEPT !.hasIn = env.hasIn,
                                                        !.hasOut = env.hasOut,
                                                        !.unlocked = ConnectUnlocked(env)])

DevRead ==
  \E res \in ReadResults(usb) :
    DevStep(usb, ConnectedAfterRead(res, connected),
            [DevOp("read", res) EXCEPT !.unlocked = {"inEndpoint"}])

DevWrite ==
  \E res \in WriteResults(usb) :
    DevStep(usb, connected,
            [DevOp("write", res) EXCEPT !.fwd = WriteForwards(usb, connected),
                                        !.unlocked = {"outEndpoint"}])

DevClose ==
  \E closeEnv \in CloseEnvs :
    LET r == CloseResult(usb, connected, closeEnv) IN
    DevStep(r.h, connected,
            [DevOp("Close", r.res) EXCEPT !.released = r.released,
                                          !.unlocked = r.unlocked])

DevIsConnected ==
  DevStep(usb, connected,
          [DevOp("IsConnected", Nil) EXCEPT !.val = IF connected THEN "true" ELSE "false"])

DevGetSerialNumber ==
  \E r \in SerialResults(usb) :
    DevStep(usb, connected,
            [DevOp("GetSerialNumber", r.res) EXCEPT !.val = r.val,
                                                    !.serialFrom = usb.device])

\* NewStreamDeck(logger, serial...) on the USBDevice it has just made: the
\* serial check when a serial is given, Connect, and ClearAllBtns, whose
\* first write needs the OUT endpoint.
NewStreamDeckResult(h, filter, r, env) ==
  IF filter # Nil /\ r.res # Nil THEN [h |-> h, connected |-> FALSE, res |-> r.res]
  ELSE IF filter # Nil /\ r.val # filter
  THEN [h |-> h, connected |-> FALSE, res |-> SerialMismatch]
  ELSE IF ConnectErrOf(env) # Nil
  THEN [h |-> ConnectHandles(h, env), connected |-> FALSE, res |-> ConnectErr]
  ELSE [h |-> ConnectHandles(h, env), connected |-> ConnectedAfterConnect(FALSE, env),
        res |-> IF Panic \in WriteResults(ConnectHandles(h, env)) THEN Panic ELSE Nil]

NewStreamDeck(filter) ==
  /\ devOp = NoOp
  /\ \E r \in SerialResults(usb), env \in ConnectEnvs :
       LET n == NewStreamDeckResult(usb, filter, r, env) IN
       DevStep(n.h, n.connected,
               [DevOp("NewStreamDeck", n.res) EXCEPT !.filter = filter,
                                                     !.hasIn = env.hasIn,
                                                     !.hasOut = env.hasOut,
                                                     !.serialFrom =
                                                        IF filter # Nil THEN usb.device ELSE Nil])

(* -------------------------------- Init --------------------------------- *)
\* The state NewStreamDeck leaves behind when it succeeds.
Init ==
  /\ connected = TRUE
  /\ usb = OpenHandles
  /\ devOp = NoOp
  /\ btnState = [i \in Buttons |-> BtnReleased]
  /\ btnEventCb = Nil
  /\ onConnectCallback = Nil
  /\ mu = Free
  /\ servePc = "idle"
  /\ serveNo = 0
  /\ serveRet = "none"
  /\ srvData = Nil
  /\ stopSig = FALSE
  /\ rd = [k \in ServeCalls |-> IdleReader]
  /\ nreads = 0
  /\ dispatchLog = << >>
  /\ thr = [t \in Threads |-> IdleThread]
  /\ writes = << >>
  /\ ncalls = 0

(* ------------------------ application operations ----------------------- *)
OnConnect(cb) ==
  /\ onConnectCallback # cb
  /\ onConnectCallback' = cb
  /\ UNCHANGED <<connected, usb, devOp, btnState, btnEventCb, mu>>
  /\ UNCHANGED serveVars
  /\ UNCHANGED fillVars

\* Variant: the lock excludes nobody.
LockAvailable_Always == TRUE

\* Whether a goroutine calling sd.Lock() gets the lock.
LockAvailable == mu = Free

SetBtnEventCb(ev) ==
  /\ LockAvailable
  /\ btnEventCb # ev
  /\ btnEventCb' = ev
  /\ UNCHANGED <<connected, usb, devOp, btnState, onConnectCallback, mu>>
  /\ UNCHANGED serveVars
  /\ UNCHANGED fillVars

\* A value is sent on the stop channel of the running Serve.
Stop ==
  /\ servePc \in {"select", "dispatch"}
  /\ ~stopSig
  /\ stopSig' = TRUE
  /\ UNCHANGED <<servePc, serveNo, serveRet, srvData, rd, nreads, dispatchLog>>
  /\ UNCHANGED devVars
  /\ UNCHANGED sdVars
  /\ UNCHANGED fillVars

(* -------------------------------- Serve -------------------------------- *)
\* Serve is called: the channels are made and the reader goroutine started.
Serve ==
  /\ servePc \in {"idle", "returned"}
  /\ serveNo < MaxServeCalls
  /\ serveNo' = serveNo + 1
  /\ servePc' = "select"
  /\ serveRet' = "none"
  /\ rd' = [rd EXCEPT ![serveNo + 1] = [IdleReader EXCEPT !.pc = "check"]]
  /\ UNCHANGED <<srvData, stopSig, nreads, dispatchLog>>
  /\ UNCHANGED devVars
  /\ UNCHANGED sdVars
  /\ UNCHANGED fillVars

\* Where the reader goes from "if !sd.device.IsConnected()".
AfterCheck(isConnected) == IF isConnected THEN "read" ELSE "connect"

ReaderCheck(k) ==
  /\ rd[k].pc = "check"
  /\ rd' = [rd EXCEPT ![k] = [IdleReader EXCEPT !.pc = AfterCheck(connected),
                                                  !.startConn = connected]]
  /\ UNCHANGED <<servePc, serveNo, serveRet, srvData, stopSig, nreads, dispatchLog>>
  /\ UNCHANGED devVars
  /\ UNCHANGED sdVars
  /\ UNCHANGED fillVars

\* Variant: the error of Connect is ignored.
AfterConnect_IgnoreError(ok) == "oncb"

\* Where the reader goes after sd.device.Connect() returned.
AfterConnect(ok) == IF ok THEN "oncb" ELSE "sendErr"

\* sd.device.Connect(): the device is found and opened, or it is not.
ReaderConnect(k) ==
  /\ rd[k].pc = "connect"
  /\ \E ok \in BOOLEAN :
       LET env == IF ok THEN ConnectFound ELSE ConnectNoDevices IN
       /\ connected' = ConnectedAfterConnect(connected, env)
       /\ usb' = ConnectHandles(usb, env)
       /\ rd' = [rd EXCEPT ![k].pc = AfterConnect(ok),
                           ![k].connOk = ok,
                           ![k].err = ConnectErrOf(env)]
  /\ UNCHANGED devOp
  /\ UNCHANGED <<servePc, serveNo, serveRet, srvData, stopSig, nreads, dispatchLog>>
  /\ UNCHANGED sdVars
  /\ UNCHANGED fillVars

\* if sd.onConnectCallback != nil { sd.onConnectCallback() }
ReaderOnConnect(k) ==
  /\ rd[k].pc = "oncb"
  /\ rd' = [rd EXCEPT ![k].pc = "read",
                      ![k].cbReg = (onConnectCallback # Nil),
                      ![k].cbCount = IF onConnectCallback # Nil THEN @ + 1 ELSE @]
  /\ UNCHANGED <<servePc, serveNo, serveRet, srvData, stopSig, nreads, dispatchLog>>
  /\ UNCHANGED devVars
  /\ UNCHANGED sdVars
  /\ UNCHANGED fillVars

\* Where the reader goes after sd.device.read(data) returned an error.
AfterReadError == "sendErr"

\* sd.device.read(data): a report arrives, or the transfer fails and
\* USBDevice.read marks the link disconnected.
ReaderRead(k, reports) ==
  /\ rd[k].pc = "read"
  /\ \/ /\ nreads < MaxReports
        /\ \E r \in reports :
             rd' = [rd EXCEPT ![k].pc = "sendMsg", ![k].data = r, ![k].seq = nreads + 1]
        /\ nreads' = nreads + 1
        /\ UNCHANGED connected
     \/ /\ connected' = ConnectedAfterRead(ReadErr, connected)
        /\ rd' = [rd EXCEPT ![k].pc = AfterReadError, ![k].err = ReadErr]
        /\ UNCHANGED nreads
  /\ UNCHANGED <<usb, devOp>>
  /\ UNCHANGED <<servePc, serveNo, serveRet, srvData, stopSig, dispatchLog>>
  /\ UNCHANGED sdVars
  /\ UNCHANGED fillVars

\* case <-stop: return nil
ServeStop ==
  /\ servePc = "select"
  /\ stopSig
  /\ stopSig' = FALSE
  /\ servePc' = "returned"
  /\ serveRet' = Nil
  /\ UNCHANGED <<serveNo, srvData, rd, nreads, dispatchLog>>
  /\ UNCHANGED devVars
  /\ UNCHANGED sdVars
  /\ UNCHANGED fillVars

\* case err := <-errorChan: return err
ServeRecvErr ==
  /\ servePc = "select"
  /\ rd[serveNo].pc = "sendErr"
  /\ servePc' = "returned"
  /\ serveRet' = rd[serveNo].err
  /\ rd' = [rd EXCEPT ![serveNo].pc = "done"]
  /\ UNCHANGED <<serveNo, srvData, stopSig, nreads, dispatchLog>>
  /\ UNCHANGED devVars
  /\ UNCHANGED sdVars
  /\ UNCHANGED fillVars

\* case data := <-messageChan: the reader goes on with its loop.
ServeRecvMsg ==
  /\ servePc = "select"
  /\ rd[serveNo].pc = "sendMsg"
  /\ servePc' = "dispatch"
  /\ srvData' = [data |-> rd[serveNo].data, seq |-> rd[serveNo].seq]
  /\ rd' = [rd EXCEPT ![serveNo].pc = "check"]
  /\ UNCHANGED <<serveNo, serveRet, stopSig, nreads, dispatchLog>>
  /\ UNCHANGED devVars
  /\ UNCHANGED sdVars
  /\ UNCHANGED fillVars

\* Variant: the callbacks are called inside the loop, under the lock, and the
\* loop waits for one that does not return.
LockAfterDispatch_Inline(events) == IF events = << >> THEN Free ELSE -1

\* The controller lock once the dispatch loop is over: "go" starts the callbacks
\* without waiting for them and sd.Unlock() follows.
LockAfterDispatch(events) == Free

\* The goroutine "go sd.btnEventCb(i, btnState)" starts.
CbStart(e) == [IdleThread EXCEPT !.pc = "started", !.op = e.cb, !.idx = e.idx]

\* sd.Lock(); the loop over the 15 state bytes; sd.Unlock()
ServeDispatch ==
  /\ servePc = "dispatch"
  /\ LockAvailable
  /\ LET r == DispatchLoop(0, btnState, StripFraming(srvData.data),
                           btnEventCb, srvData.seq)
         n == Len(dispatchLog)
     IN /\ btnState' = r.st
        /\ dispatchLog' = dispatchLog \o r.ev
        /\ thr' = [t \in Threads |->
                     IF \E j \in 1 .. Len(r.ev) : t = CbThread(n + j)
                     THEN CbStart(r.ev[CHOOSE j \in 1 .. Len(r.ev) : t = CbThread(n + j)])
                     ELSE thr[t]]
        /\ mu' = LockAfterDispatch(r.ev)
  /\ servePc' = "select"
  /\ srvData' = Nil
  /\ UNCHANGED <<serveNo, serveRet, stopSig, rd, nreads>>
  /\ UNCHANGED <<connected, usb, devOp, btnEventCb, onConnectCallback, writes, ncalls>>

(* ------------------------------ fill path ------------------------------ *)
checkValidKeyIndex(keyIndex) ==
  IF keyIndex < 0 \/ keyIndex > 15 THEN InvalidKeyIndex ELSE Nil

\* Variant: negative channel values pass.
checkRGB_NoLowerBound(value) ==
  IF value > 255 THEN InvalidColorRange ELSE Nil

checkRGB(value) ==
  IF value < 0 \/ value > 255 THEN InvalidColorRange ELSE Nil

\* The error FillImage returns before it takes the lock, Nil when it goes on.
FillImageCheck(btnIndex) == checkValidKeyIndex(btnIndex)

\* The error FillColor returns before it calls FillImage, Nil when it goes on.
FillColorCheck(btnIndex, r, g, b) ==
  IF checkRGB(r) # Nil THEN checkRGB(r)
  ELSE IF checkRGB(g) # Nil THEN checkRGB(g)
  ELSE IF checkRGB(b) # Nil THEN checkRGB(b)
  ELSE FillImageCheck(btnIndex)

ClearBtnCheck(btnIndex) ==
  IF checkValidKeyIndex(btnIndex) # Nil THEN checkValidKeyIndex(btnIndex)
  ELSE FillColorCheck(btnIndex, 0, 0, 0)

\* Variant: the button byte is the index itself.
KeyByte_RawIndex(btnIndex) == btnIndex % 256

\* byte(btnIndex + 1), the button byte of both message headers.
KeyByte(btnIndex) == (btnIndex + 1) % 256

\* prefix := []byte{...} of writeMsg1: the packet header and the bitmap header.
Msg1Prefix(btnIndex) ==
  << 2, 1, 1, 0, 0, KeyByte(btnIndex), 0, 0, 0, 0, 0, 0, 0, 0, 0, 0, 66, 77,
     246, 60, 0, 0, 0, 0, 0, 0, 54, 0, 0, 0, 40, 0, 0, 0, 72, 0, 0, 0, 72,
     0, 0, 0, 1, 0, 24, 0, 0, 0, 0, 0, 192, 60, 0, 0, 196, 14, 0, 0, 196,
     14, 0, 0, 0, 0, 0, 0, 0, 0, 0, 0, 0, 0 >>

\* prefix := []byte{...} of writeMsg2.
Msg2Prefix(btnIndex) ==
  << 2, 1, 2, 0, 1, KeyByte(btnIndex), 0, 0, 0, 0, 0, 0, 0, 0, 0, 0, 0, 0 >>

\* imgBuf after the two loops of FillImage: three bytes for each pixel of the
\* ButtonSize x ButtonSize image.
ImgBufLen == ButtonSize * ButtonSize * 3
\* page1 := imgBuf[0 : numFirstMsgPixels*3]
Page1Len == numFirstMsgPixels * 3
\* page2 := imgBuf[numFirstMsgPixels*3:]
Page2Len == ImgBufLen - numFirstMsgPixels * 3

\* The rectangle FillPanel slices for the button in (row, col): Min and Max
\* as the code sets them.
PanelRect(row, col) ==
  [minX |-> PanelWidth - ButtonSize - col * ButtonSize - col * Spacer,
   minY |-> row * ButtonSize + row * Spacer,
   maxX |-> PanelWidth - 1 - col * ButtonSize - col * Spacer,
   maxY |-> ButtonSize - 1 + row * ButtonSize + row * Spacer]
\* The row and column the two loops of FillPanel are in when counter has this value.
PanelRow(counter) == counter \div NumButtonColumns
PanelCol(counter) == counter % NumButtonColumns
\* image.Rectangle: Dx and Dy, and the pixels it contains; Max is exclusive.
RectDx(r) == r.maxX - r.minX
RectDy(r) == r.maxY - r.minY
RectContains(r, x, y) == r.minX <= x /\ x < r.maxX /\ r.minY <= y /\ y < r.maxY
\* Two rectangles share no pixel.
RectDisjoint(r, q) ==
  \/ r.maxX <= q.minX \/ q.maxX <= r.minX
  \/ r.maxY <= q.minY \/ q.maxY <= r.minY
\* The rectangle FillPanel slices for the button with this index.
PanelRectOf(i) == PanelRect(PanelRow(i), PanelCol(i))

\* The goroutine may start a call into the controller.
CanCall(t) ==
  IF t \in AppCallers
  THEN thr[t].pc \in {"idle", "done"} /\ ncalls < MaxFillCalls
  ELSE thr[t].pc = "started"

CallId(t) == IF t \in AppCallers THEN ncalls + 1 ELSE 0

\* The call returns err before the lock, or goes on to sd.Lock().
BeginCall(t, op, idx, arg, err) ==
  /\ CanCall(t)
  /\ thr' = [thr EXCEPT ![t] = [pc |-> IF err = Nil THEN "lock" ELSE "done",
                                op |-> IF t \in AppCallers THEN op ELSE thr[t].op,
                                idx |-> idx, arg |-> arg, res |-> err,
                                call |-> CallId(t)]]
  /\ ncalls' = IF t \in AppCallers THEN ncalls + 1 ELSE ncalls
  /\ UNCHANGED writes
  /\ UNCHANGED devVars
  /\ UNCHANGED sdVars
  /\ UNCHANGED serveVars

FillImage(t, btnIndex) ==
  BeginCall(t, "FillImage", btnIndex, << >>, FillImageCheck(btnIndex))

FillColor(t, btnIndex, r, g, b) ==
  BeginCall(t, "FillColor", btnIndex, <<r, g, b>>, FillColorCheck(btnIndex, r, g, b))

ClearBtn(t, btnIndex) ==
  BeginCall(t, "ClearBtn", btnIndex, << >>, ClearBtnCheck(btnIndex))

\* FillPanel with an image of the panel's size: counter := 0 and the first
\* sd.FillImage(counter, img.SubImage(rect)).
FillPanel(t) ==
  BeginCall(t, "FillPanel", 0, << PanelRect(PanelRow(0), PanelCol(0)) >>, FillImageCheck(0))

\* sd.Lock() in FillImage
FillLock(t) ==
  /\ thr[t].pc = "lock"
  /\ LockAvailable
  /\ mu' = t
  /\ thr' = [thr EXCEPT ![t].pc = "w1"]
  /\ UNCHANGED <<connected, usb, devOp, btnState, btnEventCb, onConnectCallback, writes, ncalls>>
  /\ UNCHANGED serveVars

\* The message writeMsg1 / writeMsg2 hands to USBDevice.write: the length of
\* its prefix, the byte at offset 5 of the prefix, the length of its payload.
WriteRec(t, page, ok) ==
  LET prefix == IF page = 1 THEN Msg1Prefix(thr[t].idx) ELSE Msg2Prefix(thr[t].idx) IN
  [t |-> t, call |-> thr[t].call, page |-> page, idx |-> thr[t].idx,
   key |-> prefix[5 + 1], hdr |-> Len(prefix),
   pay |-> IF page = 1 THEN Page1Len ELSE Page2Len, ok |-> ok]

\* Variant: the error of writeMsg1 is ignored.
AfterMsg1_IgnoreError(ok) == "w2"

\* Where FillImage goes after writeMsg1 returned.
AfterMsg1(ok) == IF ok THEN "w2" ELSE "done"

\* err := sd.writeMsg1(btnIndex, page1); on an error the deferred Unlock runs.
FillWrite1(t) ==
  /\ thr[t].pc = "w1"
  /\ \E ok \in BOOLEAN :
       /\ writes' = Append(writes, WriteRec(t, 1, ok))
       /\ thr' = [thr EXCEPT ![t].pc = AfterMsg1(ok),
                             ![t].res = IF ok THEN Nil ELSE WriteErr]
       /\ mu' = IF AfterMsg1(ok) = "done" THEN Free ELSE mu
  /\ UNCHANGED <<connected, usb, devOp, btnState, btnEventCb, onConnectCallback, ncalls>>
  /\ UNCHANGED serveVars

\* Variant: FillPanel goes on to the next button after a failed fill.
PanelAfterFill_IgnoreError(counter, ok) ==
  IF PanelRow(counter + 1) < NumButtonRows THEN "lock" ELSE "done"

\* Where FillPanel goes after sd.FillImage(counter, ...) returned: it returns
\* the error, or does counter++ and fills the next button while the loops last.
PanelAfterFill(counter, ok) ==
  IF ok /\ PanelRow(counter + 1) < NumButtonRows THEN "lock" ELSE "done"

\* Where the caller goes after writeMsg2 returned.
AfterMsg2(op, counter, ok) ==
  IF op = "FillPanel" THEN PanelAfterFill(counter, ok) ELSE "done"

\* err = sd.writeMsg2(btnIndex, page2); the deferred Unlock runs.  In
\* FillPanel the next FillImage call follows.
FillWrite2(t) ==
  /\ thr[t].pc = "w2"
  /\ \E ok \in BOOLEAN :
       LET next == AfterMsg2(thr[t].op, thr[t].idx, ok) IN
       /\ writes' = Append(writes, WriteRec(t, 2, ok))
       /\ thr' = [thr EXCEPT ![t].pc = next,
                             ![t].res = IF ok THEN Nil ELSE WriteErr,
                             ![t].idx = IF next = "lock" THEN @ + 1 ELSE @,
                             ![t].arg = IF next = "lock"
                                        THEN << PanelRect(PanelRow(thr[t].idx + 1),
                                                          PanelCol(thr[t].idx + 1)) >>
                                        ELSE @]
  /\ mu' = Free
  /\ UNCHANGED <<connected, usb, devOp, btnState, btnEventCb, onConnectCallback, ncalls>>
  /\ UNCHANGED serveVars

(* ------------------------- callback goroutines ------------------------- *)
\* The callback CbA calls sd.SetBtnEventCb(CbB) and waits for the lock.
CbCallSetBtnEventCb(t) ==
  /\ thr[t].pc = "started"
  /\ thr[t].op = CbA
  /\ thr' = [thr EXCEPT ![t].pc = "setcb", ![t].arg = <<CbB>>]
  /\ UNCHANGED <<writes, ncalls>>
  /\ UNCHANGED devVars
  /\ UNCHANGED sdVars
  /\ UNCHANGED serveVars

\* SetBtnEventCb run by a callback: Lock, assign, Unlock; the callback returns.
CbSetBtnEventCb(t) ==
  /\ thr[t].pc = "setcb"
  /\ LockAvailable
  /\ btnEventCb' = thr[t].arg[1]
  /\ thr' = [thr EXCEPT ![t].pc = "done"]
  /\ UNCHANGED <<connected, usb, devOp, btnState, onConnectCallback, mu, writes, ncalls>>
  /\ UNCHANGED serveVars

\* The callback CbB calls sd.FillImage on the button it was called for.
CbCallFillImage(t) ==
  /\ thr[t].op = CbB
  /\ FillImage(t, thr[t].idx)

(* ---------------------------- specifications --------------------------- *)
\* The life cycle of the event loop: Serve called repeatedly, stopped, ended by
\* errors, on a device on which one button is used and with no button callback
\* registered.
Next ==
  \/ OnConnect("onConnect")
  \/ Stop
  \/ Serve
  \/ \E k \in ServeCalls : ReaderCheck(k)
  \/ \E k \in ServeCalls : ReaderConnect(k)
  \/ \E k \in ServeCalls : ReaderOnConnect(k)
  \/ \E k \in ServeCalls : ReaderRead(k, OneButtonReports)
  \/ ServeStop
  \/ ServeRecvErr
  \/ ServeRecvMsg
  \/ ServeDispatch

Spec == Init /\ [][Next]_vars

\* One Serve call handling every report of the device.
ServeOnce == serveNo = 0 /\ Serve

NextDispatch ==
  \/ \E ev \in Callbacks \cup {Nil} : SetBtnEventCb(ev)
  \/ ServeOnce
  \/ ReaderCheck(1)
  \/ ReaderRead(1, Reports)
  \/ ServeRecvErr
  \/ ServeRecvMsg
  \/ ServeDispatch

SpecDispatch == Init /\ [][NextDispatch]_vars

\* The application registers its first callback.
RegisterCb(ev) == btnEventCb = Nil /\ SetBtnEventCb(ev)

\* One Serve call with the callbacks it starts running as goroutines.
CbStep(t) ==
  \/ CbCallSetBtnEventCb(t)
  \/ CbSetBtnEventCb(t)
  \/ CbCallFillImage(t)
  \/ FillLock(t)
  \/ FillWrite1(t)
  \/ FillWrite2(t)

NextCb ==
  \/ \E ev \in Callbacks : RegisterCb(ev)
  \/ ServeOnce
  \/ ReaderCheck(1)
  \/ ReaderRead(1, OneButtonReports)
  \/ ServeRecvErr
  \/ ServeRecvMsg
  \/ ServeDispatch
  \/ \E t \in CbThreads : CbStep(t)

SpecCb == Init /\ [][NextCb]_vars

\* The Go scheduler runs every runnable goroutine, a device write returns, and
\* sync.Mutex hands the lock to a waiting goroutine.
FairCb ==
  /\ WF_vars(ServeDispatch)
  /\ \A t \in CbThreads :
       /\ WF_vars(CbSetBtnEventCb(t))
       /\ WF_vars(FillLock(t))
       /\ WF_vars(FillWrite1(t))
       /\ WF_vars(FillWrite2(t))

FairSpecCb == Init /\ [][NextCb]_vars /\ FairCb

\* Application goroutines calling FillImage concurrently.
NextFill ==
  \/ \E t \in AppCallers, i \in ValidIndexArgs : FillImage(t, i)
  \/ \E t \in AppCallers : FillLock(t)
  \/ \E t \in AppCallers : FillWrite1(t)
  \/ \E t \in AppCallers : FillWrite2(t)

SpecFill == Init /\ [][NextFill]_vars

\* One application goroutine calling the fill operations with any arguments.
NextArgs ==
  \/ \E i \in IndexArgs : FillImage(1, i)
  \/ \E i \in IndexArgs, c \in ColorArgs : FillColor(1, i, c[1], c[2], c[3])
  \/ \E i \in IndexArgs : ClearBtn(1, i)
  \/ FillLock(1)
  \/ FillWrite1(1)
  \/ FillWrite2(1)

SpecArgs == Init /\ [][NextArgs]_vars

(* FillPanel on its own: one application goroutine fills the panel, one call
   after another. *)
NextPanel ==
  \/ FillPanel(1)
  \/ FillLock(1)
  \/ FillWrite1(1)
  \/ FillWrite2(1)

SpecPanel == Init /\ [][NextPanel]_vars

(* The USBDevice on its own: a link made by NewUSBDevice, on which
   NewStreamDeck or the link's own operations are called one after another. *)
\* The serial filters NewStreamDeck is called with; Nil is no filter.
SerialFilters == {Nil} \cup Serials

\* The state NewUSBDevice leaves behind, in a program that has no controller yet.
InitDev ==
  /\ connected = FALSE
  /\ usb = NoHandles
  /\ devOp = NoOp
  /\ btnState = [i \in Buttons |-> BtnReleased]
  /\ btnEventCb = Nil
  /\ onConnectCallback = Nil
  /\ mu = Free
  /\ servePc = "idle"
  /\ serveNo = 0
  /\ serveRet = "none"
  /\ srvData = Nil
  /\ stopSig = FALSE
  /\ rd = [k \in ServeCalls |-> IdleReader]
  /\ nreads = 0
  /\ dispatchLog = << >>
  /\ thr = [t \in Threads |-> IdleThread]
  /\ writes = << >>
  /\ ncalls = 0

NextDev ==
  \/ \E filter \in SerialFilters : NewStreamDeck(filter)
  \/ DevConnect
  \/ DevRead
  \/ DevWrite
  \/ DevClose
  \/ DevIsConnected
  \/ DevGetSerialNumber

SpecDev == InitDev /\ [][NextDev]_vars

(* ------------------------------- claims -------------------------------- *)
\* C1: a failed read does not end the reader loop: the reader of a Serve call
\* stops, and offers an error on errorChan, only after a failed Connect, so the
\* error Serve returns is the connect error and never the read error.
C1_ReadErrorRecovered ==
  \A k \in ServeCalls : rd[k].pc \in {"sendErr", "done"} => rd[k].err = ConnectErr

\* C2: in an iteration of the reader loop that finds the device not connected,
\* Connect is attempted before any read. When it fails the reader offers the
\* connect error on errorChan without having invoked the on-connect callback nor
\* read, and that error is what Serve returns from errorChan. When it succeeds
\* the on-connect callback, if one is registered, is invoked exactly once before
\* the read.
C2_Inv ==
  /\ \A k \in ServeCalls :
        /\ (rd[k].pc \in {"read", "sendMsg"} \/ rd[k].err = ReadErr)
             => (rd[k].startConn \/ rd[k].connOk)
        /\ rd[k].err = ConnectErr
             => (~rd[k].startConn /\ ~rd[k].connOk /\ rd[k].cbCount = 0
                 /\ rd[k].pc \in {"sendErr", "done"})
        /\ rd[k].cbCount <= 1
        /\ rd[k].cbCount = 1 => rd[k].connOk
  /\ (servePc = "returned" /\ rd[serveNo].err = ConnectErr /\ rd[serveNo].pc = "done")
       => serveRet = ConnectErr
C2_Step ==
  \A k \in ServeCalls :
    /\ (rd[k].pc = "check" /\ rd'[k].pc # "check" /\ ~connected) => rd'[k].pc = "connect"
    /\ (rd[k].pc = "connect" /\ rd'[k].pc # "connect")
         => \/ rd'[k].pc = "oncb" /\ connected' /\ rd'[k].connOk
            \/ rd'[k].pc = "sendErr" /\ rd'[k].err = ConnectErr
    /\ (rd[k].pc = "oncb" /\ rd'[k].pc # "oncb")
         => /\ rd'[k].pc = "read"
            /\ rd'[k].cbCount = (IF onConnectCallback # Nil THEN 1 ELSE 0)
C2_ConnectBeforeRead == [] C2_Inv /\ [][C2_Step]_vars
C2_Witness ==
  \E k \in ServeCalls :
    ~rd[k].startConn /\ rd[k].connOk /\ rd[k].cbCount = 1 /\ rd[k].pc = "sendMsg"

\* C3: a Serve that observed the stop signal returned nil, and Serve returns a
\* non-nil error only when it is a connect error surfaced by the loop.
C3_NilOrConnectError ==
  servePc = "returned" => serveRet \in {Nil, ConnectErr}

\* C4: with a callback registered, the callbacks started for a report are exactly
\* one (i, new state) for every button index i whose translated state byte
\* (0 -> released, non-zero -> pressed) differs from the cached state, and none
\* for any other index.
C4_Translated(b) == IF b = 0 THEN BtnReleased ELSE BtnPressed
C4_Step ==
  (servePc = "dispatch" /\ servePc' = "select" /\ btnEventCb # Nil) =>
    LET new == SubSeq(dispatchLog', Len(dispatchLog) + 1, Len(dispatchLog'))
        changed == { i \in Buttons : C4_Translated(srvData.data[i + 1]) # btnState[i] }
    IN /\ Len(new) = Cardinality(changed)
       /\ { <<new[j].idx, new[j].st>> : j \in 1 .. Len(new) }
            = { <<i, C4_Translated(srvData.data[i + 1])>> : i \in changed }
C4_DispatchExactlyChanged == [][C4_Step]_vars
C4_Witness ==
  /\ nreads = 2 /\ servePc = "select"
  /\ rd[serveNo].pc \in {"check", "read"}
  /\ Cardinality({ j \in 1 .. Len(dispatchLog) : dispatchLog[j].rep = 2 }) = 1
  /\ Cardinality({ j \in 1 .. Len(dispatchLog) : dispatchLog[j].rep = 1 }) = 0
  /\ btnEventCb # Nil

\* C5: the callbacks of one report are started in strictly ascending button
\* index order, and all callbacks of a report before any of a later report.
C5_AscendingDispatch ==
  \A j \in 1 .. (Len(dispatchLog) - 1) :
    \/ dispatchLog[j].rep < dispatchLog[j + 1].rep
    \/ /\ dispatchLog[j].rep = dispatchLog[j + 1].rep
       /\ dispatchLog[j].idx < dispatchLog[j + 1].idx
C5_Witness ==
  /\ Len(dispatchLog) >= 3
  /\ dispatchLog[1].rep = dispatchLog[2].rep
  /\ dispatchLog[3].rep > dispatchLog[2].rep

\* C6: starting the callbacks never blocks the event loop. Serve never stays
\* forever with a received report it has not dispatched, whatever the callbacks
\* started before do (never return, call SetBtnEventCb, call FillImage), no
\* callback stays forever waiting for the controller lock or inside its
\* FillImage, and the callback started for a
\* transition is the one registered when its report is handled, so the one a
\* previous SetBtnEventCb installed.
C6_Step ==
  (servePc = "dispatch" /\ servePc' = "select") =>
    \A j \in (Len(dispatchLog) + 1) .. Len(dispatchLog') :
      /\ dispatchLog'[j].cb = btnEventCb
      /\ thr'[CbThread(j)].pc = "started"
C6_NonBlockingDispatch ==
  /\ [][C6_Step]_vars
  /\ []<>(servePc # "dispatch")
  /\ []<>(\A t \in CbThreads : thr[t].pc \notin {"setcb", "lock", "w1", "w2"})
C6_Witness ==
  /\ Len(dispatchLog) = 3
  /\ dispatchLog[1].cb = CbA /\ dispatchLog[2].cb = CbB /\ dispatchLog[3].cb = CbB
  /\ thr[CbThread(1)].pc = "done"
  /\ thr[CbThread(2)].pc = "started"
  /\ thr[CbThread(3)].pc = "done" /\ Len(writes) = 2

\* The messages a fill call handed to the device, in order.
WritesOf(t, call) ==
  SelectSeq(writes, LAMBDA w : w.t = t /\ w.call = call)

\* C7: the messages of two fills never interleave: the page-2 message of a fill
\* directly follows its page-1 message in the sequence written to the device.
C7_NoInterleave ==
  \A j \in 1 .. Len(writes) :
    /\ writes[j].page = 2 =>
         /\ j > 1
         /\ writes[j - 1].page = 1
         /\ writes[j - 1].t = writes[j].t
         /\ writes[j - 1].call = writes[j].call
    /\ (writes[j].page = 1 /\ j < Len(writes)) =>
         (writes[j].ok => (writes[j + 1].t = writes[j].t /\ writes[j + 1].page = 2))
C7_Witness ==
  \E t, u \in AppCallers :
    /\ t # u
    /\ thr[t].pc = "w2" /\ thr[u].pc = "lock"
    /\ Len(writes) = 1 /\ writes[1].t = t

\* C8: a fill writes page 1 and then page 2 for the same button; when the
\* page-1 write fails page 2 is never written, the error is returned to the
\* caller and the controller lock is released.
C8_PagesInOrder ==
  \A t \in AppCallers :
    LET w == WritesOf(t, thr[t].call) IN
    /\ \A j \in 1 .. Len(w) : w[j].page = j /\ w[j].key = thr[t].idx + 1
    /\ Len(w) <= 2
    /\ thr[t].pc = "w2" => (Len(w) = 1 /\ w[1].ok)
    /\ (thr[t].pc = "done" /\ Len(w) >= 1) =>
         /\ mu # t
         /\ ~w[1].ok => (Len(w) = 1 /\ thr[t].res = WriteErr)
         /\ w[1].ok => (Len(w) = 2 /\ thr[t].res = (IF w[2].ok THEN Nil ELSE WriteErr))
C8_Witness ==
  \E t, u \in AppCallers :
    /\ thr[t].pc = "done" /\ thr[t].op = "FillImage" /\ thr[t].res = WriteErr
    /\ Len(WritesOf(t, thr[t].call)) = 1
    /\ mu = Free
    /\ u # t /\ thr[u].pc = "done" /\ Len(WritesOf(u, thr[u].call)) = 2

\* C9: FillImage, FillColor and ClearBtn called with a button index outside
\* 0..14 return an error before any write to the device: the invalid-index
\* error, or for FillColor with a channel out of range the invalid-color error.
C9_InvalidIndexRejected ==
  \A t \in AppCallers :
    (thr[t].op # Nil /\ thr[t].idx \notin Buttons) =>
      /\ thr[t].pc = "done"
      /\ thr[t].res \in {InvalidKeyIndex, InvalidColorRange}
      /\ WritesOf(t, thr[t].call) = << >>

\* C10: FillColor with r, g or b outside 0..255 returns the invalid-color error
\* and writes nothing to the device, whatever the button index.
C10_BadColor(c) == \E n \in 1 .. 3 : c[n] < 0 \/ c[n] > 255
C10_InvalidColorRejected ==
  \A t \in AppCallers :
    (thr[t].op = "FillColor" /\ C10_BadColor(thr[t].arg)) =>
      /\ thr[t].pc = "done"
      /\ thr[t].res = InvalidColorRange
      /\ WritesOf(t, thr[t].call) = << >>
C10_Witness ==
  /\ thr[1].op = "FillColor" /\ thr[1].arg = <<0, 256, 0>> /\ thr[1].idx = 15
  /\ thr[1].pc = "done" /\ thr[1].res = InvalidColorRange
  /\ ncalls = 2 /\ Len(writes) = 2

\* C11: FillPanel fills the buttons in increasing index order 0, 1, ..., 14, one
\* FillImage (a page-1 and a page-2 message) per button; only the last message
\* of a FillPanel call can have failed, so the buttons before the failed one
\* are written and no button after it is; a finished call returns that
\* message's error, or nil after all 15 buttons.
C11_PanelOrderAndAbort ==
  \A c \in 1 .. MaxFillCalls :
    LET W == WritesOf(1, c) IN
    /\ Len(W) <= 2 * NumButtons
    /\ \A n \in 1 .. Len(W) :
         /\ W[n].idx = (n - 1) \div 2
         /\ W[n].page = ((n - 1) % 2) + 1
         /\ n < Len(W) => W[n].ok
    /\ (thr[1].call = c /\ thr[1].pc = "done")
         => IF thr[1].res = Nil
            THEN Len(W) = 2 * NumButtons /\ W[Len(W)].ok
            ELSE Len(W) > 0 /\ ~W[Len(W)].ok /\ thr[1].res = WriteErr

\* FillPanel has returned the error of button 7, whose page-2 message failed
\* after buttons 0..6 were written.
C11_Witness ==
  /\ thr[1].op = "FillPanel"
  /\ thr[1].pc = "done"
  /\ thr[1].res = WriteErr
  /\ thr[1].idx = 7
  /\ Len(WritesOf(1, thr[1].call)) = 16

(* ------------------------- claims on the USBDevice ---------------------- *)
\* C12: Close called on a link whose connected flag is false releases nothing
\* (the interface, the context and the device handle stay as they were) and
\* returns no error.
C12_Step ==
  (devOp'.op = "Close" /\ ~connected)
    => /\ usb' = usb
       /\ devOp'.released = { }
       /\ devOp'.res = Nil
C12_CloseWhenDisconnected == [][C12_Step]_vars

\* Close has returned on a link that a failed read had marked disconnected
\* while its handles were open: they are still open.
C12_Witness ==
  /\ devOp.op = "Close"
  /\ ~devOp.wasConnected
  /\ usb.device = "open"
  /\ usb.intf = "open"

\* C13: NewStreamDeck called with a serial filter reads the serial number from
\* a device handle that Connect has opened, and ends with the controller, a
\* serial-mismatch error or the connect error, never with a panic.
C13_SerialReadFromOpenedDevice ==
  (devOp.op = "NewStreamDeck" /\ devOp.filter # Nil)
    => /\ devOp.serialFrom = "open"
       /\ devOp.res \in {Nil, SerialMismatch, ConnectErr}

(* ------------------------ claims on the messages ------------------------ *)
\* C14 as stated: the page-1 message is a 70-byte header followed by 7749
\* payload bytes, the page-2 message an 18-byte header followed by 7818 payload
\* bytes, and the byte at offset 5 of both headers is buttonIndex + 1.
C14_LayoutAsStated ==
  \A j \in 1 .. Len(writes) :
    /\ writes[j].page = 1 => (writes[j].hdr = 70 /\ writes[j].pay = 7749)
    /\ writes[j].page = 2 => (writes[j].hdr = 18 /\ writes[j].pay = 7818)
    /\ writes[j].key = writes[j].idx + 1

\* C14: for every valid button index the page-1 message is a 72-byte header
\* followed by 7749 payload bytes and the page-2 message an 18-byte header
\* followed by 7803 payload bytes; the payloads sum to 72*72*3 bytes, and the
\* byte at offset 5 of both headers is buttonIndex + 1.
C14_MessageLayout ==
  /\ Page1Len + Page2Len = 72 * 72 * 3
  /\ \A j \in 1 .. Len(writes) :
       /\ writes[j].page = 1 => (writes[j].hdr = 72 /\ writes[j].pay = 7749)
       /\ writes[j].page = 2 => (writes[j].hdr = 18 /\ writes[j].pay = 7803)
       /\ writes[j].key = writes[j].idx + 1

\* Both messages of a fill of button 14 and a message of button 0 have been written.
C14_Witness ==
  /\ \E j \in 1 .. Len(writes) : writes[j].page = 1 /\ writes[j].idx = 14
  /\ \E j \in 1 .. Len(writes) : writes[j].page = 2 /\ writes[j].idx = 14
  /\ \E j \in 1 .. Len(writes) : writes[j].idx = 0

\* C15: when USBDevice.read returns an error the connected flag is false at
\* its return; IsConnected returns the flag, and the flag goes from false to
\* true only in a Connect that succeeds (that of NewStreamDeck included).
C15_Step ==
  /\ (devOp'.op = "read" /\ devOp'.res = ReadErr) => ~connected'
  /\ devOp'.op = "IsConnected" => devOp'.val = (IF connected THEN "true" ELSE "false")
  /\ (~connected /\ connected')
       => /\ devOp'.op \in {"Connect", "NewStreamDeck"}
          /\ devOp'.op = "Connect" => devOp'.res = Nil
C15_ReadErrorDisconnects == [][C15_Step]_vars

\* A read has failed on a connected link, which is now marked disconnected.
C15_Witness ==
  /\ devOp.op = "read"
  /\ devOp.res = ReadErr
  /\ devOp.wasConnected
  /\ ~connected

\* C16: after any sequence of Connect, read, write and Close on a USBDevice,
\* the IN and OUT endpoints are valid (open and usable) if and only if
\* connected is true.
C16_EndpointsValidIffConnected ==
  devOp.op \in {"NewUSBDevice", "Connect", "read", "write", "Close"}
    => ((usb.inEndpoint = "open" /\ usb.outEndpoint = "open") <=> connected)

\* C17: USBDevice.write called on a link that is not connected fails with a
\* transport error and does not hand the bytes to the OUT endpoint.
C17_WriteWhenDisconnectedFails ==
  (devOp.op = "write" /\ ~devOp.wasConnected)
    => (devOp.res = WriteErr /\ ~devOp.fwd)

\* C18: a Connect that returns no error has located both an IN and an OUT
\* endpoint; when either is missing Connect returns an error and does not mark
\* the link connected.
C18_ConnectNeedsBothEndpoints ==
  devOp.op = "Connect"
    => /\ devOp.res = Nil => (devOp.hasIn /\ devOp.hasOut)
       /\ (~devOp.hasIn \/ ~devOp.hasOut)
            => (devOp.res = ConnectErr /\ (~devOp.wasConnected => ~connected))

\* C19: no call on a USBDevice reads or writes the connected flag, the device
\* handle, the context, the interface or an endpoint without holding the
\* USBDevice lock.
C19_StateAccessedUnderLock == devOp.unlocked = { }

(* ------------------------ claims on the panel layout -------------------- *)
\* C20: the rectangle FillPanel slices for a button is exactly 72x72 pixels,
\* shares no pixel with the rectangle of any other button, lies 19 pixels from
\* the rectangles of the next column and the next row, and the 15 rectangles
\* span exactly the panel: 0 .. 5*72+4*19 across and 0 .. 3*72+2*19 down.
C20_PanelLayout ==
  thr[1].op = "FillPanel"
    => LET i == thr[1].idx
           r == thr[1].arg[1] IN
       /\ RectDx(r) = ButtonSize
       /\ RectDy(r) = ButtonSize
       /\ \A j \in Buttons \ {i} : RectDisjoint(r, PanelRectOf(j))
       /\ PanelCol(i) + 1 < NumButtonColumns => r.minX - PanelRectOf(i + 1).maxX = Spacer
       /\ PanelRow(i) + 1 < NumButtonRows
            => PanelRectOf(i + NumButtonColumns).minY - r.maxY = Spacer
       /\ \A j \in Buttons :
            /\ PanelRectOf(j).minX >= 0 /\ PanelRectOf(j).maxX <= 5 * 72 + 4 * 19
            /\ PanelRectOf(j).minY >= 0 /\ PanelRectOf(j).maxY <= 3 * 72 + 2 * 19
       /\ \E j \in Buttons : PanelRectOf(j).minX = 0
       /\ \E j \in Buttons : PanelRectOf(j).maxX = 5 * 72 + 4 * 19
       /\ \E j \in Buttons : PanelRectOf(j).minY = 0
       /\ \E j \in Buttons : PanelRectOf(j).maxY = 3 * 72 + 2 * 19

(* ---------------------- claims on the reader's end ---------------------- *)
\* The Serve call that started reader k has returned.
C21_ServeReturned(k) == serveNo > k \/ (serveNo = k /\ servePc = "returned")

\* C21: once Serve has returned, the reader goroutine it started is not left
\* at a send on messageChan or errorChan: those channels are local to the
\* Serve call, so nothing receives from them any more and a reader at such a
\* send never terminates.
C21_ReaderNotLeftBlocked ==
  \A k \in ServeCalls :
    C21_ServeReturned(k) => rd[k].pc \notin {"sendMsg", "sendErr"}

(* ------------------------ claims on repeated Close ---------------------- *)
\* C22: after Close has returned on a connected USBDevice the connected flag
\* is false, and no Close call releases an interface, a context or a device
\* handle that an earlier Close has already released.
C22_Inv ==
  (devOp.op = "Close" /\ devOp.wasConnected /\ devOp.res # Panic) => ~connected
C22_Step ==
  devOp'.op = "Close" => \A h \in devOp'.released : usb[h] # "closed"
C22_ReleasedAtMostOnce == [] C22_Inv /\ [][C22_Step]_vars

(* ---------------------- claims on the cached states --------------------- *)
\* C23: when Serve has processed a report, the cached state of every button
\* 0..14 is the translation of that report's state byte, with or without a
\* callback registered; the callbacks started are for buttons whose cached
\* state this report changed, none is started without a callback registered,
\* and no other step starts a callback or changes the cache: a transition
\* seen while no callback was registered is not delivered to one registered
\* later.
C23_Translated(b) == IF b = 0 THEN BtnReleased ELSE BtnPressed
C23_Step ==
  IF servePc = "dispatch" /\ servePc' = "select"
  THEN /\ \A i \in Buttons : btnState'[i] = C23_Translated(srvData.data[i + 1])
       /\ Len(dispatchLog') >= Len(dispatchLog)
       /\ \A j \in (Len(dispatchLog) + 1) .. Len(dispatchLog') :
            /\ dispatchLog'[j].rep = srvData.seq
            /\ btnState[dispatchLog'[j].idx] # btnState'[dispatchLog'[j].idx]
            /\ dispatchLog'[j].st = btnState'[dispatchLog'[j].idx]
       /\ btnEventCb = Nil => dispatchLog' = dispatchLog
  ELSE UNCHANGED <<dispatchLog, btnState>>
C23_CacheFollowsReports == [][C23_Step]_vars

\* The first report, with button 0 pressed, was processed with no callback
\* registered; a callback has been registered since, and the second report,
\* with button 0 still pressed, is about to be processed.
C23_Witness ==
  /\ servePc = "dispatch"
  /\ srvData.seq = 2
  /\ srvData.data[0 + 1] # 0
  /\ btnState[0] = BtnPressed
  /\ dispatchLog = << >>
  /\ btnEventCb # Nil

====
